---- MODULE Spec2Model ----
(***************************************************************************)
(* A model of the newdns authoritative DNS server: the query handler of    *)
(* server.go (response assembly, EDNS, truncation, error paths), the zone  *)
(* defaulting and validation of zone.go, the record-set validation and     *)
(* ordering of set.go, and the Run/Close life cycle of the two listeners.  *)
(*                                                                         *)
(* A time.Duration is counted in milliseconds.  A domain name is a record   *)
(* of its labels (leftmost first) and whether it ends with the root        *)
(* separator.                                                              *)
(***************************************************************************)
EXTENDS Integers, Sequences, FiniteSets, TLC

\* ------------------------------------------------------------------ bounds

\* The longest AllNameServers list a resolver callback hands out.
MaxNS == 2

\* The largest number of records in a set given to Set.Validate.
MaxRecords == 3

\* ------------------------------------------------------------ small helpers

\* time.Minute and time.Hour, in milliseconds.
Minute == 60 * 1000

Hour == 60 * Minute

Range(s) == {s[i] : i \in DOMAIN s}

SeqsUpTo(S, n) == UNION {[1..k -> S] : k \in 0..n}

RECURSIVE SumSeq(_)
SumSeq(s) == IF s = <<>> THEN 0 ELSE Head(s) + SumSeq(Tail(s))

RECURSIVE Flatten(_)
Flatten(ss) == IF ss = <<>> THEN <<>> ELSE Head(ss) \o Flatten(Tail(ss))

Max(a, b) == IF a >= b THEN a ELSE b

\* The suffix of s holding its last n elements.
LastN(s, n) == SubSeq(s, Len(s) - n + 1, Len(s))

\* ------------------------------------------------------------------- names

\* strings.ToLower on one label of the alphabet the model draws names from.
LowerLabel(l) ==
    CASE l = "COM" -> "com"
      [] l = "Example" -> "example"
      [] l = "API" -> "api"
      [] OTHER -> l

\* strings.ToLower(dns.Name(question.Name).String()): the labels hold no
\* character that String() escapes, so only the case changes.
ToLower(n) == [n EXCEPT !.labels = [i \in DOMAIN n.labels |-> LowerLabel(n.labels[i])]]

\* dns.IsFqdn: the name ends with the root separator.
IsFqdn(n) == n.fqdn

FQ(labels) == [labels |-> labels, fqdn |-> TRUE]

Rel(labels) == [labels |-> labels, fqdn |-> FALSE]

Apex == FQ(<<"example", "com">>)

ApexMixed == FQ(<<"Example", "COM">>)

Sub(l) == FQ(<<l, "example", "com">>)

Sub2(l, m) == FQ(<<l, m, "example", "com">>)

OtherApex == FQ(<<"example", "org">>)

EmptyName == Rel(<<>>)

\* The octets a name takes on the wire, uncompressed.
NameWireLen(n) == SumSeq([i \in DOMAIN n.labels |-> Len(n.labels[i]) + 1]) + 1

\* InZone(zone, name): name equals zone or lies below it, labels compared
\* after lowering.
InZone(zone, name) ==
    LET z == ToLower(zone).labels
        n == ToLower(name).labels
    IN Len(n) >= Len(z) /\ LastN(n, Len(z)) = z

\* transferCase(source, destination): when the lowered destination is a
\* suffix of the lowered source, the suffix of source in its own case,
\* else destination unchanged.
transferCase(source, destination) ==
    LET s == ToLower(source).labels
        d == ToLower(destination).labels
    IN IF Len(s) >= Len(d) /\ LastN(s, Len(d)) = d
       THEN [destination EXCEPT !.labels = LastN(source.labels, Len(d))]
       ELSE destination

\* --------------------------------------------------------------- e-mail

NoEmail == [local |-> "", domain |-> EmptyName]

\* emailToDomain: local@domain becomes the mailbox name local.domain.
emailToDomain(e) == FQ(<<e.local>> \o e.domain.labels)

\* durationToTime: a duration as the count of seconds a record carries, a
\* started second counted whole.
durationToTime(d) == (d + 999) \div 1000

\* -------------------------------------------------------------------- zone

NoError == "ok"

\* Zone.Validate, step by step as zone.go takes them: the three FQDN checks
\* return before anything is written; the defaults are then written into the
\* zone; the two interval checks come last and leave the defaults in place.
ValidateDefaults(z) ==
    LET z1 == IF z.AdminEmail = NoEmail
              THEN [z EXCEPT !.AdminEmail = [local |-> "hostmaster", domain |-> z.Name]]
              ELSE z
        z2 == IF z1.Refresh = 0 THEN [z1 EXCEPT !.Refresh = 6 * Hour] ELSE z1
        \* zone.go:92 tests Refresh, which line 88 has just made non-zero.
        z3 == IF z2.Refresh = 0 THEN [z2 EXCEPT !.Retry = Hour] ELSE z2
        z4 == IF z3.Expire = 0 THEN [z3 EXCEPT !.Expire = 72 * Hour] ELSE z3
        z5 == IF z4.SOATTL = 0 THEN [z4 EXCEPT !.SOATTL = 15 * Minute] ELSE z4
        z6 == IF z5.NSTTL = 0 THEN [z5 EXCEPT !.NSTTL = 48 * Hour] ELSE z5
        z7 == IF z6.MinTTL = 0 THEN [z6 EXCEPT !.MinTTL = 5 * Minute] ELSE z6
    IN z7

ValidateNames(z) ==
    IF ~IsFqdn(z.Name) THEN "name not fully qualified"
    ELSE IF ~IsFqdn(z.MasterNameServer) THEN "master server not full qualified"
    ELSE IF \E i \in DOMAIN z.AllNameServers : ~IsFqdn(z.AllNameServers[i])
         THEN "additional name server not fully qualified"
    ELSE NoError

ValidateIntervals(z) ==
    IF z.Retry >= z.Refresh THEN "retry must be less than refresh"
    ELSE IF z.Expire < z.Refresh + z.Retry
         THEN "expire must be bigger than the sum of refresh and retry"
    ELSE NoError

\* The zone as Validate leaves it and the error it returns.
ZoneValidate(z) ==
    IF ValidateNames(z) # NoError
    THEN [err |-> ValidateNames(z), zone |-> z]
    ELSE [err |-> ValidateIntervals(ValidateDefaults(z)), zone |-> ValidateDefaults(z)]

\* ------------------------------------------------------------ record types

TypeA == "A"

TypeAAAA == "AAAA"

TypeCNAME == "CNAME"

TypeMX == "MX"

TypeTXT == "TXT"

TypeNS == "NS"

TypeSOA == "SOA"

TypePTR == "PTR"

TypeANY == "ANY"

\* A query type the server has no tag for.
TypeSRV == "SRV"

\* Type.valid: the type is one of the record tags.
TypeValid(t) ==
    t \in {TypeA, TypeAAAA, TypeCNAME, TypeMX, TypeTXT, TypeNS, TypeSOA, TypePTR}

\* ----------------------------------------------------------------- strings

\* The rank of a label in byte order among the labels the model uses.
LabelRank(l) ==
    CASE l = "*" -> 1 [] l = "1" -> 2 [] l = "2" -> 3 [] l = "2001:db8::1" -> 4
      [] l = "3" -> 5 [] l = "4" -> 6 [] l = "5" -> 7 [] l = "6" -> 8
      [] l = "7" -> 9 [] l = "8" -> 10 [] l = "9" -> 11 [] l = "::1" -> 12
      [] l = "API" -> 13 [] l = "COM" -> 14 [] l = "Example" -> 15
      [] l = "api" -> 16 [] l = "com" -> 17 [] l = "example" -> 18
      [] l = "foo" -> 19 [] l = "hostmaster" -> 20 [] l = "mail" -> 21
      [] l = "mail2" -> 22 [] l = "nope" -> 23 [] l = "ns1" -> 24
      [] l = "ns2" -> 25 [] l = "org" -> 26 [] l = "wild" -> 27
      [] l = "www" -> 28 [] OTHER -> 29

\* Go's < on strings, on sequences of ranks: the first difference decides and
\* a proper prefix comes first.
RECURSIVE SeqLess(_, _)
SeqLess(a, b) ==
    IF b = <<>> THEN FALSE
    ELSE IF a = <<>> THEN TRUE
    ELSE IF Head(a) # Head(b) THEN Head(a) < Head(b)
    ELSE SeqLess(Tail(a), Tail(b))

\* An address string as ranks: its labels, then the root separator if any.
\* The separator ranks below every label character.
AddrKey(a) ==
    [i \in DOMAIN a.labels |-> LabelRank(a.labels[i])] \o (IF a.fqdn THEN <<0>> ELSE <<>>)

\* One TXT character-string: the character c repeated n times.
Chunk(c, n) == [c |-> c, n |-> n]

CharRank(c) == CASE c = "a" -> 1 [] c = "b" -> 2 [] c = "x" -> 3 [] c = "y" -> 4 [] OTHER -> 5

ChunkKey(ch) == [i \in 1..ch.n |-> CharRank(ch.c)]

\* The decimal digits of n, most significant first.
RECURSIVE Digits(_)
Digits(n) == IF n < 10 THEN <<n>> ELSE Append(Digits(n \div 10), n % 10)

\* fmt.Sprintf("%05d", n) for n >= 0: at least five digits, zero padded.
Pad5(n) ==
    LET d == Digits(n)
    IN IF Len(d) >= 5 THEN d ELSE [i \in 1..(5 - Len(d)) |-> 0] \o d

\* fmt.Sprintf("%05d %s", Priority, Address) as ranks: a digit d ranks 100 + d,
\* the space ranks 50, and the address follows shifted above both.
MXKey(r) ==
    [i \in DOMAIN Pad5(r.Priority) |-> 100 + Pad5(r.Priority)[i]] \o <<50>>
        \o [i \in DOMAIN AddrKey(r.Address) |-> 200 + AddrKey(r.Address)[i]]

\* ------------------------------------------------------- records and sets

Rec(addr, prio, data) == [Address |-> addr, Priority |-> prio, Data |-> data]

IP4(a, b, c, d) == Rel(<<a, b, c, d>>)

IP6(s) == Rel(<<s>>)

Octets == {"1", "2", "3", "4", "5", "6", "7", "8", "9"}

IsIPv4(a) == ~a.fqdn /\ Len(a.labels) = 4 /\ \A i \in 1..4 : a.labels[i] \in Octets

IsIPv6(a) == ~a.fqdn /\ Len(a.labels) = 1 /\ a.labels[1] \in {"::1", "2001:db8::1"}

\* IsDomain(s, fqdn): at most 253 octets, every label 1 to 63 octets, and the
\* root separator when fqdn is asked for.
IsDomain(n, fqdn) ==
    /\ Len(n.labels) >= 1
    /\ \A i \in DOMAIN n.labels : Len(n.labels[i]) \in 1..63
    /\ NameWireLen(n) - 2 + (IF n.fqdn THEN 1 ELSE 0) <= 253
    /\ (fqdn => n.fqdn)

\* Record.Validate(typ): the per-type constraints on a record's value.
RecordValid(r, typ) ==
    CASE typ = TypeA -> IsIPv4(r.Address)
      [] typ = TypeAAAA -> IsIPv6(r.Address)
      [] typ \in {TypeCNAME, TypeNS, TypePTR} -> IsDomain(r.Address, TRUE)
      [] typ = TypeMX -> IsDomain(r.Address, TRUE) /\ r.Priority \in 0..65535
      [] typ = TypeTXT -> r.Data # <<>> /\ \A i \in DOMAIN r.Data : r.Data[i].n \in 1..255
      [] OTHER -> FALSE

\* The comparison set.go hands to sort.Slice.
RecordLess(typ, a, b) ==
    IF typ = TypeTXT THEN SeqLess(ChunkKey(a.Data[1]), ChunkKey(b.Data[1]))
    ELSE IF typ = TypeMX THEN SeqLess(MXKey(a), MXKey(b))
    ELSE SeqLess(AddrKey(a.Address), AddrKey(b.Address))

\* The checks of Set.Validate that precede the sort, in order.
SetValidateErr(s) ==
    IF ~IsDomain(s.Name, TRUE) THEN "invalid name"
    ELSE IF ~TypeValid(s.Type) THEN "invalid type"
    ELSE IF Len(s.Records) = 0 THEN "missing records"
    ELSE IF s.Type = TypeCNAME /\ Len(s.Records) > 1 THEN "multiple CNAME records"
    ELSE IF \E i \in DOMAIN s.Records : ~RecordValid(s.Records[i], s.Type) THEN "invalid record"
    ELSE NoError

Perms(n) == {p \in [1..n -> 1..n] : \A i, j \in 1..n : i # j => p[i] # p[j]}

\* sort.Slice promises a result ordered by the comparison and nothing about
\* records the comparison does not tell apart: every rearrangement of the
\* records in which no record precedes one that is less than it.
SortOutcomes(typ, recs) ==
    {out \in {[i \in DOMAIN recs |-> recs[p[i]]] : p \in Perms(Len(recs))} :
        \A i, j \in DOMAIN out : i < j => ~RecordLess(typ, out[j], out[i])}

DefaultTTL(s) == IF s.TTL = 0 THEN [s EXCEPT !.TTL = 5 * Minute] ELSE s

\* Set.Validate on s: the sets it can leave behind when it returns no error.
SetValidateOutcomes(s) ==
    {DefaultTTL([s EXCEPT !.Records = out]) : out \in SortOutcomes(s.Type, s.Records)}

\* ------------------------------------------------------- resource records

RcodeSuccess == "NOERROR"

RcodeServerFailure == "SERVFAIL"

RcodeNameError == "NXDOMAIN"

RcodeNotImplemented == "NOTIMP"

RcodeRefused == "REFUSED"

RcodeBadVers == "BADVERS"

ClassINET == "IN"

ClassCHAOS == "CH"

TypeOPT == "OPT"

RR(name, typ, ttl, data) == [Name |-> name, Rrtype |-> typ, Ttl |-> ttl, Data |-> data]

\* Set.convert(zone, name): one resource record per record of the set, owned
\* by name, with the set's TTL raised to the zone's MinTTL.
convert(set, zone, name) ==
    [i \in DOMAIN set.Records |->
        RR(name, set.Type, durationToTime(Max(set.TTL, zone.MinTTL)),
           CASE set.Type = TypeMX ->
                    [Mx |-> set.Records[i].Address, Preference |-> set.Records[i].Priority]
             [] set.Type = TypeTXT -> [Txt |-> set.Records[i].Data]
             [] OTHER -> [Target |-> set.Records[i].Address])]

\* The NS record the handler builds for one entry of AllNameServers.
NSRecord(owner, zone, ns) == RR(owner, TypeNS, durationToTime(zone.NSTTL), [Target |-> ns])

NSRecords(owner, zone) ==
    [i \in DOMAIN zone.AllNameServers |-> NSRecord(owner, zone, zone.AllNameServers[i])]

\* The SOA record writeSOAResponse and writeErrorWithSOA synthesize.
SOARecord(zone) ==
    RR(zone.Name, TypeSOA, durationToTime(zone.SOATTL),
       [Ns |-> zone.MasterNameServer,
        Mbox |-> emailToDomain(zone.AdminEmail),
        Serial |-> 1,
        Refresh |-> durationToTime(zone.Refresh),
        Retry |-> durationToTime(zone.Retry),
        Expire |-> durationToTime(zone.Expire),
        Minttl |-> durationToTime(zone.MinTTL)])

\* Msg.SetEdns0(udpsize, do): an OPT record appended to the additional section.
OPTRecord(udpsize, do) ==
    RR([labels |-> <<>>, fqdn |-> TRUE], TypeOPT, 0,
       [UDPSize |-> udpsize, Do |-> do, Version |-> 0])

\* ---------------------------------------------------------- message length

\* The number of trailing labels n shares with the question name q.
RECURSIVE SharedSuffix(_, _)
SharedSuffix(n, q) ==
    IF n = <<>> \/ q = <<>> \/ n[Len(n)] # q[Len(q)] THEN 0
    ELSE 1 + SharedSuffix(SubSeq(n, 1, Len(n) - 1), SubSeq(q, 1, Len(q) - 1))

\* A name as the compressing encoder writes it: the labels it does not share
\* with the question name, then a two octet pointer to the shared suffix.
CompLen(n, q) ==
    LET k == SharedSuffix(n.labels, q.labels)
    IN IF k = 0 THEN NameWireLen(n)
       ELSE SumSeq([i \in 1..(Len(n.labels) - k) |-> Len(n.labels[i]) + 1]) + 2

RDataLen(rr, q) ==
    CASE rr.Rrtype = TypeA -> 4
      [] rr.Rrtype = TypeAAAA -> 16
      [] rr.Rrtype = TypeMX -> 2 + CompLen(rr.Data.Mx, q)
      [] rr.Rrtype = TypeTXT -> SumSeq([i \in DOMAIN rr.Data.Txt |-> 1 + rr.Data.Txt[i].n])
      [] rr.Rrtype = TypeSOA -> CompLen(rr.Data.Ns, q) + CompLen(rr.Data.Mbox, q) + 20
      [] rr.Rrtype = TypeOPT -> 0
      [] OTHER -> CompLen(rr.Data.Target, q)

RRLen(rr, q) == CompLen(rr.Name, q) + 10 + RDataLen(rr, q)

\* Msg.Len() of a compressed message: the header, the question and the records
\* of the three sections.
MsgLen(m) ==
    LET all == m.Answer \o m.Ns \o m.Extra
    IN 12 + NameWireLen(m.Question.Name) + 4
          + SumSeq([i \in DOMAIN all |-> RRLen(all[i], m.Question.Name)])

\* ------------------------------------------------------------ zone handlers

\* A zone's Handler field names one of these callbacks; HandlerNil is the
\* field left unset.
HandlerNil == "nil"

MkSet(name, typ, recs, ttl) == [Name |-> name, Type |-> typ, Records |-> recs, TTL |-> ttl]

MailName == Sub("mail")

Mail2Name == Sub("mail2")

\* The sets of the example zone, by owner name.
ScenarioSets(name) ==
    CASE name = Apex ->
            << MkSet(Apex, TypeMX, <<Rec(MailName, 10, <<>>)>>, 0),
               MkSet(Apex, TypeTXT,
                     << Rec(EmptyName, 0, <<Chunk("a", 200)>>),
                        Rec(EmptyName, 0, <<Chunk("b", 200)>>),
                        Rec(EmptyName, 0, <<Chunk("x", 200)>>) >>, Minute) >>
      [] name = Sub("api") -> << MkSet(Sub("api"), TypeA, <<Rec(IP4("1", "2", "3", "4"), 0, <<>>)>>, Minute) >>
      [] name = Sub("www") -> << MkSet(Sub("www"), TypeCNAME, <<Rec(Sub("api"), 0, <<>>)>>, 0) >>
      [] name = MailName -> << MkSet(MailName, TypeA, <<Rec(IP4("5", "6", "7", "8"), 0, <<>>)>>, 0) >>
      [] name = Sub2("*", "wild") ->
            << MkSet(Sub2("*", "wild"), TypeA, <<Rec(IP4("9", "9", "9", "9"), 0, <<>>)>>, 0) >>
      [] OTHER -> <<>>

\* A zone whose mail exchangers cannot be looked up: the callback fails at
\* their names.
MXFailSets(name) ==
    CASE name = Apex ->
            << MkSet(Apex, TypeMX, <<Rec(Mail2Name, 20, <<>>), Rec(MailName, 10, <<>>)>>, 0) >>
      [] OTHER -> <<>>

\* A callback that answers with a set Set.Validate rejects.
InvalidSets(name) ==
    CASE name = Sub("api") ->
            << MkSet(Sub("api"), TypeCNAME, <<Rec(Sub("www"), 0, <<>>), Rec(MailName, 0, <<>>)>>, 0) >>
      [] OTHER -> <<>>

ZoneHandlers == {"scenario", "mxfail", "invalid", "broken", "empty"}

\* One call of the zone's Handler for the sets at name: the error it returns
\* and the sets.
HandlerCall(h, name) ==
    CASE h = "scenario" -> [err |-> FALSE, sets |-> ScenarioSets(name)]
      [] h = "mxfail" -> [err |-> name \in {MailName, Mail2Name}, sets |-> MXFailSets(name)]
      [] h = "invalid" -> [err |-> FALSE, sets |-> InvalidSets(name)]
      [] h = "broken" -> [err |-> TRUE, sets |-> <<>>]
      [] OTHER -> [err |-> FALSE, sets |-> <<>>]

\* ------------------------------------------------------------ lookup engine

\* The depth at which a CNAME chain is abandoned.
MaxChase == 16

\* The sets r the handler returned, each validated (an invalid set is an
\* internal failure) and put in canonical order.
ValidateAll(r) ==
    IF r.err \/ \E i \in DOMAIN r.sets : SetValidateErr(r.sets[i]) # NoError
    THEN [err |-> TRUE, sets |-> <<>>]
    ELSE [err |-> FALSE,
          sets |-> [i \in DOMAIN r.sets |-> CHOOSE v \in SetValidateOutcomes(r.sets[i]) : TRUE]]

\* The handler's validated sets at name.
ValidatedSets(h, name) == ValidateAll(HandlerCall(h, name))

\* The wildcard owner *.<ancestor> for the ancestor k labels up from name.
WildcardAt(name, k) == FQ(<<"*">> \o LastN(name.labels, Len(name.labels) - k))

\* The sets r of a wildcard, owned by the queried name.
Substitute(r, name) ==
    [err |-> FALSE, sets |-> [i \in DOMAIN r.sets |-> [r.sets[i] EXCEPT !.Name = name]]]

\* Wildcard expansion: the sets of the nearest wildcard *.<parent> between
\* name and the apex.  ws lists the handler's validated sets at the wildcard
\* owners, nearest first.
RECURSIVE WildcardPick(_, _)
WildcardPick(ws, name) ==
    IF ws = <<>> THEN [err |-> FALSE, sets |-> <<>>]
    ELSE IF Head(ws).err THEN Head(ws)
    ELSE IF Head(ws).sets # <<>> THEN Substitute(Head(ws), name)
    ELSE WildcardPick(Tail(ws), name)

WildcardSets(zone, name) ==
    WildcardPick([k \in 1..(Len(name.labels) - Len(zone.Name.labels)) |->
                     ValidatedSets(zone.Handler, WildcardAt(name, k))], name)

\* The sets at name: the direct ones r, else those of a wildcard.
SetsAtFrom(zone, name, r) ==
    IF r.err \/ r.sets # <<>> \/ name = ToLower(zone.Name) THEN r
    ELSE WildcardSets(zone, name)

SetsAt(zone, name) == SetsAtFrom(zone, name, ValidatedSets(zone.Handler, name))

IsCNAME(st) == st.Type = TypeCNAME

\* The first CNAME set among sets, as a sequence of at most one set.
FirstOf(s) == IF s = <<>> THEN <<>> ELSE <<Head(s)>>

CNAMEOf(sets) == FirstOf(SelectSeq(sets, IsCNAME))

\* The sets among sets of a type in qtypes, each with its owner.
Filtered(sets, name, qtypes) ==
    LET Wanted(st) == st.Type \in qtypes
    IN [i \in DOMAIN SelectSeq(sets, Wanted) |-> [Name |-> name, Set |-> SelectSeq(sets, Wanted)[i]]]

\* A CNAME set followed by what chasing its target gave.
Chain(name, cname, rest) ==
    [err |-> rest.err,
     result |-> IF rest.err THEN <<>> ELSE <<[Name |-> name, Set |-> cname]>> \o rest.result]

NoMore == [err |-> FALSE, result |-> <<>>]

RECURSIVE Resolve(_, _, _, _)

\* CNAME chasing and type filtering from name on, r being the sets at name,
\* cname the CNAME set among them and visited the owners seen so far: the
\* resolved sets in assembly order.  A target outside the zone, or seen
\* before, or past the depth bound, ends the chain.
ResolveFrom(zone, name, qtypes, visited, r, cname) ==
    IF r.err THEN [err |-> TRUE, result |-> <<>>]
    ELSE IF cname # <<>> /\ TypeCNAME \notin qtypes
    THEN Chain(name, cname[1],
               IF /\ InZone(zone.Name, ToLower(cname[1].Records[1].Address))
                  /\ ToLower(cname[1].Records[1].Address) \notin visited
                  /\ Cardinality(visited) < MaxChase
               THEN Resolve(zone, ToLower(cname[1].Records[1].Address), qtypes,
                            visited \cup {ToLower(cname[1].Records[1].Address)})
               ELSE NoMore)
    ELSE [err |-> FALSE, result |-> Filtered(r.sets, name, qtypes)]

ResolveAt(zone, name, qtypes, visited, r) ==
    ResolveFrom(zone, name, qtypes, visited, r, CNAMEOf(r.sets))

Resolve(zone, name, qtypes, visited) ==
    ResolveAt(zone, name, qtypes, visited, SetsAt(zone, name))

\* Whether Lookup calls the zone's Handler at all: only for a name of the zone.
LookupCallsHandler(zone, name) == InZone(zone.Name, name)

\* The existence probe: whether the name holds any set.
HasSets(zone, name) == SetsAt(zone, name).sets # <<>>

LookupFrom(zone, name, r) ==
    IF r.err THEN [result |-> <<>>, avl |-> FALSE, err |-> TRUE]
    ELSE IF r.result # <<>> THEN [result |-> r.result, avl |-> FALSE, err |-> FALSE]
    ELSE [result |-> <<>>, avl |-> HasSets(zone, name), err |-> FALSE]

\* Zone.Lookup(name, qtypes...): the result sets, whether the name holds sets
\* of other types only, and the error.
Lookup(zone, name, qtypes) ==
    IF ~InZone(zone.Name, name) THEN [result |-> <<>>, avl |-> FALSE, err |-> FALSE]
    ELSE LookupFrom(zone, name, Resolve(zone, name, qtypes, {name}))

\* ------------------------------------------------------------------ server

DefaultBufferSize == 1220

\* The buffer of a UDP client that sent no OPT record.
PlainUDPSize == 512

\* NewServer(config): the configuration with the buffer size defaulted.
NewServer(config) ==
    IF config.BufferSize <= 0 THEN [config EXCEPT !.BufferSize = DefaultBufferSize] ELSE config

\* uint16(x) for a positive int.
Uint16(x) == x % (2 ^ 16)

\* Msg.IsEdns0() # nil: the request carries an OPT record.
IsEdns0(rq) == rq.Opt.present

\* Msg.SetReply(rq): a response bound to the request's id and question.
SetReply(rq) ==
    [Id |-> rq.Id, Response |-> TRUE, Opcode |-> rq.Opcode,
     Authoritative |-> FALSE, Truncated |-> FALSE, Compress |-> FALSE,
     Rcode |-> RcodeSuccess, Question |-> rq.Question,
     Answer |-> <<>>, Ns |-> <<>>, Extra |-> <<>>]

\* What a handler invocation has done to the outside so far: the messages
\* handed to WriteMsg, the calls of Close on the connection, the calls of the
\* reporter.
NoEffects == [writes |-> <<>>, closes |-> 0, reports |-> 0]

\* w.WriteMsg(rs), whatever it returns.
WriteMsg(o, rs) == [o EXCEPT !.writes = Append(@, rs)]

\* w.Close().
CloseConn(o) == [o EXCEPT !.closes = @ + 1]

\* reportError that never reaches the reporter.
reportError_Dropped(s, o) == o

\* Server.reportError: the reporter is called when one is configured.
reportError(s, o) == IF s.Reporter THEN [o EXCEPT !.reports = @ + 1] ELSE o

\* Server.writeError: set the code, write, close; the write's error is dropped.
writeError(o, rs, code) == CloseConn(WriteMsg(o, [rs EXCEPT !.Rcode = code]))

\* The buffer writeMessage measures a UDP reply against.
BufferOf(rq) == IF IsEdns0(rq) THEN rq.Opt.udpSize ELSE PlainUDPSize

\* The truncated form of a reply: TC set and the three sections dropped.
TruncatedReply(rs) == [rs EXCEPT !.Truncated = TRUE, !.Answer = <<>>, !.Ns = <<>>, !.Extra = <<>>]

\* Server.writeMessage on connection w (its network and whether WriteMsg fails).
writeMessage(s, w, rq, rs, o) ==
    IF w.net = "udp" /\ MsgLen(rs) > BufferOf(rq)
    THEN writeError(o, TruncatedReply(rs), RcodeSuccess)
    ELSE IF w.writeFails THEN reportError(s, CloseConn(WriteMsg(o, rs)))
    ELSE WriteMsg(o, rs)

\* Server.writeSOAResponse: the SOA in the answer, the NS records in authority.
SOAResponse(rs, zone) ==
    [rs EXCEPT !.Answer = Append(@, SOARecord(zone)), !.Ns = @ \o NSRecords(zone.Name, zone)]

\* Server.writeNSResponse: the NS records in the answer.
NSResponse(rs, zone) == [rs EXCEPT !.Answer = @ \o NSRecords(zone.Name, zone)]

\* writeErrorWithSOA with the SOA put in the answer section.
ErrorWithSOA_InAnswer(rs, zone, code) ==
    [rs EXCEPT !.Rcode = code, !.Answer = Append(@, SOARecord(zone))]

\* Server.writeErrorWithSOA: the code, and the SOA in authority.
ErrorWithSOA(rs, zone, code) == [rs EXCEPT !.Rcode = code, !.Ns = Append(@, SOARecord(zone))]

\* The reply as the handler prepares it: authoritative, compressed, and with
\* an OPT record when the request has one.
PrepareReply(s, rq) ==
    LET rs == [SetReply(rq) EXCEPT !.Compress = TRUE, !.Authoritative = TRUE]
    IN IF IsEdns0(rq)
       THEN [rs EXCEPT !.Extra = Append(@, OPTRecord(Uint16(s.BufferSize), FALSE))]
       ELSE rs

\* The reply left authoritative.
ClearAuthoritative_Kept(rs) == rs

\* The reply of the no-zone path: not authoritative.
ClearAuthoritative(rs) == [rs EXCEPT !.Authoritative = FALSE]

\* The answer section: every result set converted, owned by the result's name
\* in the case of the question.
AnswerOf(zone, question, result) ==
    Flatten([i \in DOMAIN result |->
                convert(result[i].Set, zone, transferCase(question.Name, result[i].Name))])

RECURSIVE MXTargets(_, _, _, _)

\* One turn of the loop over the answers, l being the lookup of the MX
\* target: an error ends the loop, else its results go to extra and the loop
\* goes on with the other answers.
MXStep(zone, question, l, extra, others) ==
    IF l.err THEN [err |-> TRUE, extra |-> extra, panic |-> FALSE]
    ELSE MXTargets(zone, question, others, extra \o AnswerOf(zone, question, l.result))

\* The loop over the answers: for each MX record with a target in the zone
\* the target's A and AAAA sets are looked up and added to extra; the first
\* lookup error ends the loop.
MXTargets(zone, question, answers, extra) ==
    IF answers = <<>> THEN [err |-> FALSE, extra |-> extra, panic |-> FALSE]
    ELSE IF Head(answers).Rrtype = TypeMX /\ InZone(zone.Name, Head(answers).Data.Mx)
    THEN IF zone.Handler = HandlerNil
         THEN [err |-> FALSE, extra |-> extra, panic |-> TRUE]
         ELSE MXStep(zone, question, Lookup(zone, Head(answers).Data.Mx, {TypeA, TypeAAAA}),
                     extra, Tail(answers))
    ELSE MXTargets(zone, question, Tail(answers), extra)

\* What one handler invocation leaves behind.  path names the return it took;
\* asm holds the reply handed to writeMessage, if one was.
Outcome(path, o, zone, asm, resolved, looked) ==
    [path |-> path, o |-> o, zone |-> zone, asm |-> asm,
     resolverCalled |-> resolved, handlerCalled |-> looked]

\* A reply handed to writeMessage.
Written(path, s, w, rq, rs, zone, looked) ==
    Outcome(path, writeMessage(s, w, rq, rs, NoEffects), <<zone>>, <<rs>>, TRUE, looked)

\* An internal failure: SERVFAIL written through writeError, then reported.
Failed(path, s, rs, zone, resolved, looked) ==
    Outcome(path, reportError(s, writeError(NoEffects, rs, RcodeServerFailure)),
            zone, <<>>, resolved, looked)

\* The zone's NS records in authority, owned by the zone's name in the case
\* of the question.
WithNS(rs, question, zone) ==
    [rs EXCEPT !.Ns = @ \o NSRecords(transferCase(question.Name, zone.Name), zone)]

\* The end of Server.handler, mx being what the loop over the answers gave.
handleMX(s, w, rq, rs, zone, mx) ==
    IF mx.panic THEN Outcome("panic", NoEffects, <<zone>>, <<>>, TRUE, TRUE)
    ELSE IF mx.err THEN Failed("mx-error", s, [rs EXCEPT !.Extra = mx.extra], <<zone>>, TRUE, TRUE)
    ELSE Written("answer", s, w, rq, WithNS([rs EXCEPT !.Extra = mx.extra], rq.Question, zone),
                 zone, TRUE)

\* Server.handler once the answer section is set.
handleAnswer(s, w, rq, rs, zone) ==
    handleMX(s, w, rq, rs, zone, MXTargets(zone, rq.Question, rs.Answer, rs.Extra))

\* Server.handler once the main lookup has returned results.
handleResult(s, w, rq, rs, zone, result) ==
    handleAnswer(s, w, rq, [rs EXCEPT !.Answer = @ \o AnswerOf(zone, rq.Question, result)], zone)

\* Server.handler once the main lookup has returned l.
handleLooked(s, w, rq, rs, zone, l, called) ==
    IF l.err THEN Failed("lookup-error", s, rs, <<zone>>, TRUE, called)
    ELSE IF l.result = <<>>
    THEN IF l.avl
         THEN Written("nodata", s, w, rq, ErrorWithSOA(rs, zone, RcodeSuccess), zone, called)
         ELSE Written("nxdomain", s, w, rq, ErrorWithSOA(rs, zone, RcodeNameError), zone, called)
    ELSE handleResult(s, w, rq, rs, zone, l.result)

\* Server.handler from the main lookup on, for a valid zone and a supported
\* type.  Calling the Handler of a zone that has none is a nil call: the
\* invocation panics before anything is written.
handleLookup(s, w, rq, rs, name, zone) ==
    IF LookupCallsHandler(zone, name) /\ zone.Handler = HandlerNil
    THEN Outcome("panic", NoEffects, <<zone>>, <<>>, TRUE, TRUE)
    ELSE handleLooked(s, w, rq, rs, zone, Lookup(zone, name, {rq.Question.Qtype}),
                      LookupCallsHandler(zone, name))

\* Server.handler for a zone that passed validation.
handleValid(s, w, rq, rs, name, zone) ==
    IF rq.Question.Qtype = TypeSOA /\ name = zone.Name
    THEN Written("soa", s, w, rq, SOAResponse(rs, zone), zone, FALSE)
    ELSE IF rq.Question.Qtype = TypeNS /\ name = zone.Name
    THEN Written("ns", s, w, rq, NSResponse(rs, zone), zone, FALSE)
    ELSE IF ~TypeValid(rq.Question.Qtype)
    THEN Written("type", s, w, rq, ErrorWithSOA(rs, zone, RcodeNameError), zone, FALSE)
    ELSE handleLookup(s, w, rq, rs, name, zone)

\* Server.handler once zone.Validate() has returned v.
handleValidated(s, w, rq, rs, name, v) ==
    IF v.err # NoError THEN Failed("invalid-zone", s, rs, <<v.zone>>, TRUE, FALSE)
    ELSE handleValid(s, w, rq, rs, name, v.zone)

\* Server.handler from the zone's validation on.
handleZone(s, w, rq, rs, name, given) ==
    handleValidated(s, w, rq, rs, name, ZoneValidate(given))

\* Server.handler once the zone resolver has returned zr.
handleResolved(s, w, rq, rs, zr) ==
    IF zr.kind = "error" THEN Failed("resolver-error", s, rs, <<>>, TRUE, FALSE)
    ELSE IF zr.kind = "nil"
    THEN Outcome("refused", writeError(NoEffects, ClearAuthoritative(rs), RcodeRefused),
                 <<>>, <<>>, TRUE, FALSE)
    ELSE handleZone(s, w, rq, rs, ToLower(rq.Question.Name), zr.zone)

\* The handler without its class check.
handlePrepared_NoClassCheck(s, w, rq, rs, zr) ==
    IF IsEdns0(rq) /\ rq.Opt.version # 0
    THEN Outcome("badvers", writeError(NoEffects, rs, RcodeBadVers), <<>>, <<>>, FALSE, FALSE)
    ELSE IF rq.Question.Qtype = TypeANY
    THEN Outcome("any", writeError(NoEffects, rs, RcodeNotImplemented), <<>>, <<>>, FALSE, FALSE)
    ELSE handleResolved(s, w, rq, rs, zr)

\* The handler with the ANY check ahead of the EDNS version check.
handlePrepared_AnyFirst(s, w, rq, rs, zr) ==
    IF rq.Question.Qclass = ClassINET /\ rq.Question.Qtype = TypeANY
    THEN Outcome("any", writeError(NoEffects, rs, RcodeNotImplemented), <<>>, <<>>, FALSE, FALSE)
    ELSE IF IsEdns0(rq) /\ rq.Opt.version # 0
    THEN Outcome("badvers", writeError(NoEffects, rs, RcodeBadVers), <<>>, <<>>, FALSE, FALSE)
    ELSE IF rq.Question.Qclass # ClassINET
    THEN Outcome("class", NoEffects, <<>>, <<>>, FALSE, FALSE)
    ELSE handleResolved(s, w, rq, rs, zr)

\* Server.handler once the reply rs is prepared.
handlePrepared(s, w, rq, rs, zr) ==
    IF IsEdns0(rq) /\ rq.Opt.version # 0
    THEN Outcome("badvers", writeError(NoEffects, rs, RcodeBadVers), <<>>, <<>>, FALSE, FALSE)
    ELSE IF rq.Question.Qclass # ClassINET
    THEN Outcome("class", NoEffects, <<>>, <<>>, FALSE, FALSE)
    ELSE IF rq.Question.Qtype = TypeANY
    THEN Outcome("any", writeError(NoEffects, rs, RcodeNotImplemented), <<>>, <<>>, FALSE, FALSE)
    ELSE handleResolved(s, w, rq, rs, zr)

\* Whether the handler gets as far as calling the zone resolver.
ReachesResolver(rq) ==
    /\ ~(IsEdns0(rq) /\ rq.Opt.version # 0)
    /\ rq.Question.Qclass = ClassINET
    /\ rq.Question.Qtype # TypeANY

\* Server.handler(w, rq) when the zone resolver, if called, returns zr.
handler(s, w, rq, zr) == handlePrepared(s, w, rq, PrepareReply(s, rq), zr)

\* Server.accept on the header's flag word and question count.
accept(bits, qdcount) ==
    IF (bits \div (2 ^ 15)) % 2 # 0 THEN "ignore"
    ELSE IF (bits \div (2 ^ 11)) % 16 # 0 THEN "ignore"
    ELSE IF qdcount # 1 THEN "ignore"
    ELSE "accept"

\* ------------------------------------------------------------------ inputs

NS1 == Sub("ns1")

NS2 == Sub("ns2")

\* A name server written without the root separator.
NSRelative == Rel(<<"ns1", "example", "com">>)

AdminEmail == [local |-> "admin", domain |-> Rel(<<"example", "com">>)]

MkZone(name, master, all, email, refresh, retry, expire, soattl, nsttl, minttl, h) ==
    [Name |-> name, MasterNameServer |-> master, AllNameServers |-> all,
     AdminEmail |-> email, Refresh |-> refresh, Retry |-> retry, Expire |-> expire,
     SOATTL |-> soattl, NSTTL |-> nsttl, MinTTL |-> minttl, Handler |-> h]

\* The example zone with every optional field left unset.
PlainZone == MkZone(Apex, NS1, <<NS1, NS2>>, NoEmail, 0, 0, 0, 0, 0, 0, "scenario")

\* The zones a resolver callback returns: the example zone with its name
\* servers varied, with its name varied, with its SOA intervals varied, with
\* its TTLs and mailbox varied, and with its Handler varied.
ZoneInputs ==
    {[PlainZone EXCEPT !.MasterNameServer = m, !.AllNameServers = a] :
        m \in {NS1, NSRelative}, a \in SeqsUpTo({NS1, NS2, NSRelative}, MaxNS)}
    \cup {[PlainZone EXCEPT !.Name = n] : n \in {ApexMixed, Rel(<<"example", "com">>)}}
    \cup {[PlainZone EXCEPT !.Refresh = f, !.Retry = r, !.Expire = e] :
            f \in {0, 2 * Hour}, r \in {0, 10 * Minute, 2 * Hour}, e \in {0, Hour}}
    \cup {[PlainZone EXCEPT !.SOATTL = t, !.NSTTL = n, !.MinTTL = m, !.AdminEmail = a] :
            t \in {0, 2 * Minute}, n \in {0, 30 * 1000}, m \in {0, 10 * Minute}, a \in {NoEmail, AdminEmail}}
    \cup {[PlainZone EXCEPT !.Handler = h] : h \in ZoneHandlers \cup {HandlerNil}}

\* What the zone resolver callback can return.
ResolverOutcomes ==
    {[kind |-> "error", zone |-> PlainZone], [kind |-> "nil", zone |-> PlainZone]}
    \cup {[kind |-> "zone", zone |-> z] : z \in ZoneInputs}

NotCalled == [kind |-> "none", zone |-> PlainZone]

NoOpt == [present |-> FALSE, version |-> 0, udpSize |-> 0]

Opts == {NoOpt} \cup [present : {TRUE}, version : {0, 1}, udpSize : {64, 512}]

QNames == {Apex, ApexMixed, Sub("api"), Sub("www"), Sub("nope"), Sub2("foo", "wild"), OtherApex}

QTypes == {TypeA, TypeAAAA, TypeCNAME, TypeMX, TypeTXT, TypeNS, TypeSOA, TypeANY, TypeSRV}

\* The accepted queries: one question, opcode QUERY, not a response.
Requests ==
    [Id : {7}, Opcode : {"QUERY"}, Opt : Opts,
     Question : [Name : QNames, Qtype : QTypes, Qclass : {ClassINET, ClassCHAOS}]]

\* Header flag words: a plain query, a query with RD, a response, a NOTIFY.
HeaderBits == {0, 256, 2 ^ 15, 4 * (2 ^ 11)}

Conns == [net : {"udp", "tcp"}, writeFails : BOOLEAN]

\* The configurations given to NewServer: the buffer size unset, set, and set
\* beyond 16 bits; with and without a reporter.
Configs ==
    {[BufferSize |-> 0, Reporter |-> TRUE], [BufferSize |-> 4096, Reporter |-> FALSE],
     [BufferSize |-> 70000, Reporter |-> TRUE]}

\* The records a set of each type is built from; the last of each pool is one
\* Record.Validate rejects.
RecordPool(typ) ==
    CASE typ = TypeA ->
            {Rec(IP4("1", "2", "3", "4"), 0, <<>>), Rec(IP4("5", "6", "7", "8"), 0, <<>>),
             Rec(MailName, 0, <<>>)}
      [] typ = TypeMX ->
            {Rec(MailName, 10, <<>>), Rec(Mail2Name, 10, <<>>), Rec(MailName, 5, <<>>),
             Rec(MailName, 70000, <<>>)}
      [] typ = TypeTXT ->
            {Rec(EmptyName, 0, <<Chunk("a", 1)>>), Rec(EmptyName, 0, <<Chunk("a", 1), Chunk("x", 1)>>),
             Rec(EmptyName, 0, <<Chunk("a", 1), Chunk("y", 1)>>), Rec(EmptyName, 0, <<Chunk("b", 2)>>),
             Rec(EmptyName, 0, <<>>)}
      [] OTHER -> {Rec(Sub("api"), 0, <<>>), Rec(MailName, 0, <<>>)}

\* The sets handed to Set.Validate.
SetInputs ==
    UNION {[Name : {Sub("api"), Rel(<<"api">>)}, Type : {t},
            Records : SeqsUpTo(RecordPool(t), MaxRecords), TTL : {0, Minute}] :
              t \in {TypeA, TypeMX, TypeTXT, TypeCNAME}}

\* The same records in every insertion order.
Rearrangements(st) ==
    {[st EXCEPT !.Records = [i \in DOMAIN st.Records |-> st.Records[p[i]]]] :
        p \in Perms(Len(st.Records))}

\* The number of times Validate is called on one set.
MaxValidations == 2

\* The servers of the process and the networks each listens on.
Servers == {1, 2}

Nets == {"udp", "tcp"}

\* ------------------------------------------------------------------- state

VARIABLES
    server,     \* the Server's config, as NewServer left it
    pc,         \* "idle", or what became of the last message: "done", "ignored"
    rq,         \* the request of the last handler invocation
    conn,       \* its connection: the network, and whether writing on it fails
    zr,         \* what the zone resolver returned to it, NotCalled if not called
    out,        \* what the invocation did
    sets,       \* two Sets built from the same records: as given, as they are
                \* now, as they were before the last Validate, its error, the
                \* number of Validate calls
    mux,        \* the server whose handler the process-wide mux holds, 0 if none
    runPc,      \* where each server's Run is
    runErr,     \* what Run received from errs
    closed,     \* whether each server's close channel is closed
    listener,   \* each listener goroutine: "idle", "spawned", "serving", "exited"
    started,    \* the started flag of each dns.Server
    errs,       \* each Run's errs channel
    via         \* the server whose listener received the last query, 0 if none

hvars == <<server, pc, rq, conn, zr, out>>

rvars == <<mux, runPc, runErr, closed, listener, started, errs, via>>

vars == <<server, pc, rq, conn, zr, out, sets, mux, runPc, runErr, closed, listener, started, errs, via>>

IdleRequest ==
    [Id |-> 0, Opcode |-> "QUERY", Opt |-> NoOpt,
     Question |-> [Name |-> Apex, Qtype |-> TypeA, Qclass |-> ClassINET]]

IdleConn == [net |-> "udp", writeFails |-> FALSE]

IdleOutcome == Outcome("idle", NoEffects, <<>>, <<>>, FALSE, FALSE)

\* No message in the handler.
HIdle ==
    /\ pc = "idle"
    /\ rq = IdleRequest
    /\ conn = IdleConn
    /\ zr = NotCalled
    /\ out = IdleOutcome

SetState(st) == [given |-> st, cur |-> st, before |-> st, err |-> NoError, runs |-> 0]

NoSet == [Name |-> Sub("api"), Type |-> TypeA, Records |-> <<>>, TTL |-> 0]

\* No set under validation.
SIdle == sets = [i \in 1..2 |-> SetState(NoSet)]

\* No server running.
RIdle ==
    /\ mux = 0
    /\ runPc = [i \in Servers |-> "start"]
    /\ runErr = [i \in Servers |-> "none"]
    /\ closed = [i \in Servers |-> FALSE]
    /\ listener = [i \in Servers |-> [n \in Nets |-> "idle"]]
    /\ started = [i \in Servers |-> [n \in Nets |-> FALSE]]
    /\ errs = [i \in Servers |-> <<>>]
    /\ via = 0

\* ------------------------------------------------------- the query handler

HInit ==
    /\ server \in {NewServer(c) : c \in Configs}
    /\ HIdle
    /\ SIdle
    /\ RIdle

\* The transport hands an accepted query to Server.handler, which runs to its
\* return.  The resolver's outcome is drawn only when the handler calls it.
Handle ==
    /\ pc = "idle"
    /\ {bits \in HeaderBits : accept(bits, 1) = "accept"} # {}
    /\ \E q \in Requests, w \in Conns :
          \E r \in (IF ReachesResolver(q) THEN ResolverOutcomes ELSE {NotCalled}) :
             /\ rq' = q
             /\ conn' = w
             /\ zr' = r
             /\ out' = handler(server, w, q, r)
    /\ pc' = "done"
    /\ UNCHANGED <<server, sets>>
    /\ UNCHANGED rvars

\* The accept filter turns a message away: the handler is not called.
Ignore ==
    /\ pc = "idle"
    /\ {<<bits, qd>> \in HeaderBits \X (0..2) : accept(bits, qd) = "ignore"} # {}
    /\ pc' = "ignored"
    /\ UNCHANGED <<server, rq, conn, zr, out, sets>>
    /\ UNCHANGED rvars

\* The transport goes back to reading the next message.
NextMessage ==
    /\ pc # "idle"
    /\ pc' = "idle"
    /\ rq' = IdleRequest
    /\ conn' = IdleConn
    /\ zr' = NotCalled
    /\ out' = IdleOutcome
    /\ UNCHANGED <<server, sets>>
    /\ UNCHANGED rvars

Next == Handle \/ Ignore \/ NextMessage

Spec == HInit /\ [][Next]_vars

\* ------------------------------------------------------------ Set.Validate

SetInit ==
    /\ server = NewServer([BufferSize |-> 0, Reporter |-> FALSE])
    /\ HIdle
    /\ RIdle
    /\ \E st \in SetInputs : \E other \in Rearrangements(st) :
          sets = <<SetState(st), SetState(other)>>

\* Set.Validate on the i-th set fails: the set is left as it was.
SetValidateFails(i) ==
    /\ sets[i].runs < MaxValidations
    /\ SetValidateErr(sets[i].cur) # NoError
    /\ sets' = [sets EXCEPT ![i] = [@ EXCEPT !.err = SetValidateErr(sets[i].cur),
                                             !.before = sets[i].cur,
                                             !.runs = @ + 1]]
    /\ UNCHANGED hvars
    /\ UNCHANGED rvars

\* Set.Validate on the i-th set succeeds: the records sorted, the TTL defaulted.
SetValidateOK(i) ==
    /\ sets[i].runs < MaxValidations
    /\ SetValidateErr(sets[i].cur) = NoError
    /\ \E v \in SetValidateOutcomes(sets[i].cur) :
          sets' = [sets EXCEPT ![i] = [@ EXCEPT !.cur = v, !.err = NoError,
                                                !.before = sets[i].cur,
                                                !.runs = @ + 1]]
    /\ UNCHANGED hvars
    /\ UNCHANGED rvars

SetNext == \E i \in 1..2 : SetValidateFails(i) \/ SetValidateOK(i)

SpecSet == SetInit /\ [][SetNext]_vars

\* ------------------------------------------------------------ Run and Close

\* The configurations of the two servers of the process.
ConfigOf(i) ==
    IF i = 1 THEN [BufferSize |-> 0, Reporter |-> TRUE]
    ELSE [BufferSize |-> 4096, Reporter |-> FALSE]

\* The query a client sends to a serving listener, and the zone either
\* server's resolver knows.
ProbeRequest ==
    [Id |-> 7, Opcode |-> "QUERY", Opt |-> [present |-> TRUE, version |-> 0, udpSize |-> 512],
     Question |-> [Name |-> Sub("api"), Qtype |-> TypeA, Qclass |-> ClassINET]]

ProbeZone == [kind |-> "zone", zone |-> PlainZone]

RunInit ==
    /\ server = NewServer(ConfigOf(1))
    /\ HIdle
    /\ SIdle
    /\ RIdle

Send(i, v) == errs' = [errs EXCEPT ![i] = Append(@, v)]

\* Run up to the select: the handler registered with the process-wide mux,
\* the two dns.Server values prepared, the two goroutines started.
RunStart(i) ==
    /\ runPc[i] = "start"
    /\ mux' = i
    /\ listener' = [listener EXCEPT ![i] = [n \in Nets |-> "spawned"]]
    /\ runPc' = [runPc EXCEPT ![i] = "await"]
    /\ UNCHANGED <<runErr, closed, started, errs, sets, via>>
    /\ UNCHANGED hvars

\* ListenAndServe cannot bind: it returns the error, which goes to errs.
ListenFails(i, n) ==
    /\ listener[i][n] = "spawned"
    /\ listener' = [listener EXCEPT ![i][n] = "exited"]
    /\ Send(i, "error")
    /\ UNCHANGED <<mux, runPc, runErr, closed, started, sets, via>>
    /\ UNCHANGED hvars

\* ListenAndServe binds, sets started and serves.
ListenServes(i, n) ==
    /\ listener[i][n] = "spawned"
    /\ listener' = [listener EXCEPT ![i][n] = "serving"]
    /\ started' = [started EXCEPT ![i][n] = TRUE]
    /\ UNCHANGED <<mux, runPc, runErr, closed, errs, sets, via>>
    /\ UNCHANGED hvars

\* A serving listener fails to accept: ListenAndServe returns the error.
ServeFails(i, n) ==
    /\ listener[i][n] = "serving"
    /\ started[i][n]
    /\ listener' = [listener EXCEPT ![i][n] = "exited"]
    /\ Send(i, "error")
    /\ UNCHANGED <<mux, runPc, runErr, closed, started, sets, via>>
    /\ UNCHANGED hvars

\* A serving listener that was shut down returns nil.
ServeStops(i, n) ==
    /\ listener[i][n] = "serving"
    /\ ~started[i][n]
    /\ listener' = [listener EXCEPT ![i][n] = "exited"]
    /\ Send(i, "nil")
    /\ UNCHANGED <<mux, runPc, runErr, closed, started, sets, via>>
    /\ UNCHANGED hvars

\* The select of Run takes the first error.
AwaitError(i) ==
    /\ runPc[i] = "await"
    /\ errs[i] # <<>>
    /\ runErr' = [runErr EXCEPT ![i] = Head(errs[i])]
    /\ errs' = [errs EXCEPT ![i] = Tail(@)]
    /\ runPc' = [runPc EXCEPT ![i] = "shutdown-udp"]
    /\ UNCHANGED <<mux, closed, listener, started, sets, via>>
    /\ UNCHANGED hvars

\* The select of Run sees the close channel closed.
AwaitClose(i) ==
    /\ runPc[i] = "await"
    /\ closed[i]
    /\ runPc' = [runPc EXCEPT ![i] = "shutdown-udp"]
    /\ UNCHANGED <<mux, runErr, closed, listener, started, errs, sets, via>>
    /\ UNCHANGED hvars

ShutdownPc(n) == IF n = "udp" THEN "shutdown-udp" ELSE "shutdown-tcp"

AfterShutdown(n) == IF n = "udp" THEN "shutdown-tcp" ELSE "returned"

\* dns.Server.Shutdown on a server that is not started returns an error and
\* does nothing more; on a started one it clears started, closes the
\* listener and waits for the serving loop to end.  Run drops its result.
Shutdown(i, n) ==
    /\ runPc[i] = ShutdownPc(n)
    /\ IF started[i][n]
       THEN /\ started' = [started EXCEPT ![i][n] = FALSE]
            /\ runPc' = [runPc EXCEPT ![i] = IF n = "udp" THEN "wait-udp" ELSE "wait-tcp"]
       ELSE /\ runPc' = [runPc EXCEPT ![i] = AfterShutdown(n)]
            /\ UNCHANGED started
    /\ UNCHANGED <<mux, runErr, closed, listener, errs, sets, via>>
    /\ UNCHANGED hvars

\* Shutdown returns once the serving loop has ended.
ShutdownReturns(i, n) ==
    /\ runPc[i] = (IF n = "udp" THEN "wait-udp" ELSE "wait-tcp")
    /\ listener[i][n] # "serving"
    /\ runPc' = [runPc EXCEPT ![i] = AfterShutdown(n)]
    /\ UNCHANGED <<mux, runErr, closed, listener, started, errs, sets, via>>
    /\ UNCHANGED hvars

\* Server.Close: the close channel is closed, once.
Close(i) ==
    /\ ~closed[i]
    /\ closed' = [closed EXCEPT ![i] = TRUE]
    /\ UNCHANGED <<mux, runPc, runErr, listener, started, errs, sets, via>>
    /\ UNCHANGED hvars

\* A serving listener of server i reads a query.  Neither dns.Server has a
\* Handler of its own, so the query goes to the process-wide mux, which calls
\* the handler registered last.
Receive(i, n) ==
    /\ listener[i][n] = "serving"
    /\ mux # 0
    /\ via' = i
    /\ server' = NewServer(ConfigOf(mux))
    /\ rq' = ProbeRequest
    /\ conn' = [net |-> n, writeFails |-> FALSE]
    /\ zr' = ProbeZone
    /\ out' = handler(NewServer(ConfigOf(mux)), [net |-> n, writeFails |-> FALSE],
                      ProbeRequest, ProbeZone)
    /\ pc' = "done"
    /\ UNCHANGED <<mux, runPc, runErr, closed, listener, started, errs, sets>>

RunNext ==
    \E i \in Servers :
        \/ RunStart(i)
        \/ AwaitError(i)
        \/ AwaitClose(i)
        \/ Close(i)
        \/ \E n \in Nets :
              \/ ListenFails(i, n)
              \/ ListenServes(i, n)
              \/ ServeFails(i, n)
              \/ ServeStops(i, n)
              \/ Shutdown(i, n)
              \/ ShutdownReturns(i, n)
              \/ Receive(i, n)

SpecRun == RunInit /\ [][RunNext]_vars

\* ------------------------------------------------------------------ claims

\* The messages the last handler invocation handed to WriteMsg.
Replies == out.o.writes

Handled == pc = "done"

\* The resolver returned a zone and Zone.Validate accepted it.
ZoneValid == zr.kind = "zone" /\ ZoneValidate(zr.zone).err = NoError

\* A lookup of the zone, the main one or that of an MX target, returned an error.
LookupFailed == out.path \in {"lookup-error", "mx-error"}

\* An internal failure of the invocation: of the resolver, of the zone's
\* validation, of a lookup.
InternalFailure ==
    \/ zr.kind = "error"
    \/ (zr.kind = "zone" /\ ZoneValidate(zr.zone).err # NoError)
    \/ LookupFailed

OPTsOf(m) == SelectSeq(m.Extra, LAMBDA rr : rr.Rrtype = TypeOPT)

SectionsEmpty(m) == m.Answer = <<>> /\ m.Ns = <<>> /\ m.Extra = <<>>

\* C1 (as stated): for an accepted IN, non-ANY query of any type whose zone
\* is resolved and valid and whose handling meets no internal error, the
\* reply code is NOERROR if the zone's handler holds a set at the query name
\* and NXDOMAIN if it holds none.
C1_AnyTypeNoErrorIffSets ==
    (/\ Handled
     /\ rq.Question.Qclass = ClassINET
     /\ rq.Question.Qtype # TypeANY
     /\ ZoneValid
     /\ out.path \notin {"lookup-error", "mx-error", "panic", "badvers"})
    => /\ Len(Replies) = 1
       /\ Replies[1].Rcode =
             IF HandlerCall(zr.zone.Handler, ToLower(rq.Question.Name)).sets # <<>>
             THEN RcodeSuccess ELSE RcodeNameError

\* C2 (as stated): every reply written over UDP, by writeMessage or by
\* writeError, is no longer than the client's buffer, or has TC set and its
\* three sections empty.
C2_UDPRepliesFitOrTruncated ==
    (Handled /\ conn.net = "udp")
    => \A i \in DOMAIN Replies :
          \/ MsgLen(Replies[i]) <= BufferOf(rq)
          \/ (Replies[i].Truncated /\ SectionsEmpty(Replies[i]))

\* C3 (as stated): a query whose class is not IN gets no reply and the zone
\* resolver is not called, whatever its other fields.
C3_NonINDropped ==
    (Handled /\ rq.Question.Qclass # ClassINET)
    => (Replies = <<>> /\ ~out.resolverCalled)

\* C3 (amended): a query whose class is not IN never reaches the zone
\* resolver; it gets no reply unless it carries an OPT record of a version
\* other than 0, and then it gets exactly one reply, BADVERS.
C3_NonINDroppedUnlessBadVers ==
    (Handled /\ rq.Question.Qclass # ClassINET)
    => /\ ~out.resolverCalled
       /\ IF IsEdns0(rq) /\ rq.Opt.version # 0
          THEN Len(Replies) = 1 /\ Replies[1].Rcode = RcodeBadVers
          ELSE Replies = <<>> /\ out.o.closes = 0

\* A CHAOS query with an OPT record of version 0 was handled and dropped.
C3_Witness ==
    /\ Handled
    /\ rq.Question.Qclass = ClassCHAOS
    /\ IsEdns0(rq) /\ rq.Opt.version = 0
    /\ out.path = "class"
    /\ Replies = <<>>

\* C4 (as stated): a reply to a request with an OPT record carries one OPT
\* record, with the configured buffer size and DO clear, on every path; a
\* reply to a request without OPT carries none.
C4_OPTEchoedOnEveryPath ==
    Handled
    => \A i \in DOMAIN Replies :
          IF IsEdns0(rq)
          THEN /\ Len(OPTsOf(Replies[i])) = 1
               /\ OPTsOf(Replies[i])[1].Data.UDPSize = server.BufferSize
               /\ ~OPTsOf(Replies[i])[1].Data.Do
          ELSE OPTsOf(Replies[i]) = <<>>

\* C5: a reply is authoritative unless the zone resolver returned no zone;
\* the replies to a query without a zone, and only those, are REFUSED and
\* not authoritative.
C5_AuthoritativeUnlessRefused ==
    Handled
    => \A i \in DOMAIN Replies :
          /\ Replies[i].Authoritative <=> zr.kind # "nil"
          /\ Replies[i].Rcode = RcodeRefused <=> zr.kind = "nil"

\* The resolver returned no zone and the query was refused.
C5_Witness ==
    /\ Handled
    /\ zr.kind = "nil"
    /\ Len(Replies) = 1
    /\ Replies[1].Rcode = RcodeRefused
    /\ ~Replies[1].Authoritative

\* C6: an internal failure is answered with SERVFAIL and reported once (when
\* a reporter is configured); an invocation without internal failure and
\* without write failure reports nothing.
C6_FailuresReportedOnce ==
    Handled
    => /\ InternalFailure
          => /\ Len(Replies) = 1
             /\ Replies[1].Rcode = RcodeServerFailure
             /\ out.o.reports = IF server.Reporter THEN 1 ELSE 0
       /\ (~InternalFailure /\ ~conn.writeFails) => out.o.reports = 0

\* The lookup of an MX target failed after the answer was set, and the
\* configured reporter was called once.
C6_Witness ==
    /\ Handled
    /\ out.path = "mx-error"
    /\ server.Reporter
    /\ out.o.reports = 1
    /\ Replies[1].Rcode = RcodeServerFailure

\* C7 (as stated, its safety half): once Run has returned no listener of the
\* server is serving.
C7_NoListenerAfterReturn ==
    \A i \in Servers : runPc[i] = "returned" => \A n \in Nets : listener[i][n] # "serving"

\* C8 (as stated): a zone given with Retry unset that Validate accepts has
\* Retry = 1h afterwards, and a synthesized SOA carries RETRY 3600.
C8_RetryDefaultsToOneHour ==
    (Handled /\ zr.kind = "zone" /\ zr.zone.Retry = 0 /\ ZoneValid)
    => /\ out.zone[1].Retry = Hour
       /\ \A i \in DOMAIN out.asm :
             \A rr \in Range(out.asm[i].Answer) \cup Range(out.asm[i].Ns) :
                rr.Rrtype = TypeSOA => rr.Data.Retry = 3600

\* C9 (as stated): a zone without name servers or without Handler is
\* rejected by validation: SERVFAIL, reported, no lookup, no reply assembled.
C9_EmptyNSOrNoHandlerRejected ==
    (/\ Handled
     /\ zr.kind = "zone"
     /\ (zr.zone.AllNameServers = <<>> \/ zr.zone.Handler = HandlerNil))
    => /\ out.path = "invalid-zone"
       /\ Len(Replies) = 1
       /\ Replies[1].Rcode = RcodeServerFailure

\* C10 (as stated): two sets of the same records validate to the same
\* sequence whatever the insertion orders, and validating a validated set
\* again leaves its order as it was.
C10_OrderDependsOnContentsOnly ==
    /\ (/\ sets[1].runs >= 1 /\ sets[1].err = NoError
        /\ sets[2].runs >= 1 /\ sets[2].err = NoError)
       => sets[1].cur.Records = sets[2].cur.Records
    /\ \A i \in 1..2 :
          (sets[i].runs = 2 /\ sets[i].err = NoError) => sets[i].cur.Records = sets[i].before.Records

\* The records of a message's three sections other than the OPT pseudo-record.
RecordsOf(m) ==
    {rr \in Range(m.Answer) \cup Range(m.Ns) \cup Range(m.Extra) : rr.Rrtype # TypeOPT}

\* C11 (as stated): in a reply for a valid zone every record other than the
\* SOA has a TTL of at least the zone's MinTTL, whatever the zone's TTL
\* settings.
C11_TTLAtLeastMinTTL ==
    (Handled /\ ZoneValid /\ out.zone # <<>>)
    => \A i \in DOMAIN Replies :
          \A rr \in RecordsOf(Replies[i]) :
             rr.Rrtype # TypeSOA => rr.Ttl >= durationToTime(out.zone[1].MinTTL)

\* C12 (as stated): when the write of a reply fails, on any path, the
\* connection is closed and the failure reaches the reporter.
C12_WriteFailureClosedAndReported ==
    (Handled /\ conn.writeFails /\ Replies # <<>>)
    => /\ out.o.closes >= 1
       /\ server.Reporter => out.o.reports >= 1

\* C13 (as stated): the Zone the resolver returned has, after the handler
\* returns, the fields it had when the resolver returned it.
C13_ZoneNotModified ==
    (Handled /\ zr.kind = "zone" /\ out.zone # <<>>) => out.zone[1] = zr.zone

\* The request carries an OPT record of a version other than 0.
BadVersion == IsEdns0(rq) /\ rq.Opt.version # 0

\* One reply with the given code and empty answer and authority sections,
\* written without the zone resolver or a zone handler being called.
RepliedEarly(code) ==
    /\ Len(Replies) = 1
    /\ Replies[1].Rcode = code
    /\ Replies[1].Answer = <<>>
    /\ Replies[1].Ns = <<>>
    /\ ~out.resolverCalled
    /\ ~out.handlerCalled

\* C14: an IN query with an OPT record of a version other than 0 is answered
\* BADVERS; otherwise an ANY query is answered NOTIMP; in both cases neither
\* the zone resolver nor a zone handler is called and the reply's answer and
\* authority sections are empty.
C14_BadVersThenNotImp ==
    (Handled /\ rq.Question.Qclass = ClassINET)
    => /\ BadVersion => RepliedEarly(RcodeBadVers)
       /\ (~BadVersion /\ rq.Question.Qtype = TypeANY) => RepliedEarly(RcodeNotImplemented)

\* An ANY query with an OPT record of version 1 was answered BADVERS.
C14_Witness ==
    /\ Handled
    /\ rq.Question.Qclass = ClassINET
    /\ rq.Question.Qtype = TypeANY
    /\ BadVersion
    /\ RepliedEarly(RcodeBadVers)

\* The query is an IN query for the apex of the validated zone, names
\* compared without regard to case, that gets past the EDNS check.
ApexQuery(qtype) ==
    /\ Handled
    /\ rq.Question.Qclass = ClassINET
    /\ ~BadVersion
    /\ ZoneValid
    /\ ToLower(rq.Question.Name) = ToLower(zr.zone.Name)
    /\ rq.Question.Qtype = qtype

\* C15 (as stated): an SOA query for the apex of a valid zone gets NOERROR
\* with the synthesized SOA as the only answer and one NS record per name
\* server in authority; an NS query for the apex gets NOERROR with one NS
\* record per name server in the answer; the zone handler is not called.
C15_ApexShortcuts ==
    /\ ApexQuery(TypeSOA)
       => /\ ~out.handlerCalled
          /\ Len(out.asm) = 1
          /\ out.asm[1].Rcode = RcodeSuccess
          /\ out.asm[1].Answer = <<SOARecord(out.zone[1])>>
          /\ out.asm[1].Ns = NSRecords(out.zone[1].Name, out.zone[1])
    /\ ApexQuery(TypeNS)
       => /\ ~out.handlerCalled
          /\ Len(out.asm) = 1
          /\ out.asm[1].Rcode = RcodeSuccess
          /\ out.asm[1].Answer = NSRecords(out.zone[1].Name, out.zone[1])

\* The reply as it stood when the handler went to write it: the one handed
\* to writeMessage, or the one handed to writeError.
Assembled == IF out.asm # <<>> THEN out.asm[1] ELSE Replies[1]

SameSections(m, n) == m.Answer = n.Answer /\ m.Ns = n.Ns /\ m.Extra = n.Extra

\* C16 (as stated): a reply is sent truncated, TC set and its sections
\* cleared, exactly when the transport is UDP and the reply as assembled is
\* longer than the client's buffer; over TCP it is written as assembled.
C16_TruncatedIffUDPAndTooLong ==
    (Handled /\ Replies # <<>>)
    => /\ Replies[1].Truncated <=> (conn.net = "udp" /\ MsgLen(Assembled) > BufferOf(rq))
       /\ Replies[1].Truncated => SectionsEmpty(Replies[1])
       /\ conn.net = "tcp" => SameSections(Replies[1], Assembled)

\* The main lookup was made and returned.
MainLookupMade == out.path \in {"nodata", "nxdomain", "answer", "lookup-error", "mx-error"}

\* The negative reply to the lookup outcome l: nothing in the answer, the
\* synthesized SOA alone in authority, no record but an OPT in additional,
\* the code by l.avl, and written as it is unless truncated.
NegativeReply(l) ==
    /\ Len(out.asm) = 1
    /\ out.asm[1].Answer = <<>>
    /\ out.asm[1].Ns = <<SOARecord(out.zone[1])>>
    /\ \A rr \in Range(out.asm[1].Extra) : rr.Rrtype = TypeOPT
    /\ out.asm[1].Rcode = IF l.avl THEN RcodeSuccess ELSE RcodeNameError
    /\ Len(Replies) = 1
    /\ ~Replies[1].Truncated => Replies[1] = out.asm[1]

EmptyLookup(l) == ~l.err /\ l.result = <<>>

\* C17: for a valid zone and a supported type, when the main lookup returns
\* no sets and no error, the untruncated reply has an empty answer section
\* and the synthesized SOA alone in authority (no NS records), with NOERROR
\* if the lookup reported other types at the name and NXDOMAIN otherwise.
C17_NegativeReplies ==
    (/\ Handled /\ ZoneValid /\ MainLookupMade
     /\ EmptyLookup(Lookup(out.zone[1], ToLower(rq.Question.Name), {rq.Question.Qtype})))
    => NegativeReply(Lookup(out.zone[1], ToLower(rq.Question.Name), {rq.Question.Qtype}))

\* An AAAA query for a name that has an A set only got the NODATA reply,
\* untruncated.
C17_Witness ==
    /\ Handled
    /\ ZoneValid
    /\ out.path = "nodata"
    /\ rq.Question.Qtype = TypeAAAA
    /\ Len(Replies) = 1
    /\ ~Replies[1].Truncated
    /\ Replies[1].Rcode = RcodeSuccess
    /\ Replies[1].Answer = <<>>
    /\ Len(Replies[1].Ns) = 1
    /\ Replies[1].Ns[1].Rrtype = TypeSOA

\* C18 (as stated): an invocation writes exactly one message, with the
\* request's id and question, on every path but the class path, which
\* writes none.
C18_ExactlyOneReply ==
    Handled
    => IF out.path = "class" THEN Replies = <<>>
       ELSE /\ Len(Replies) = 1
            /\ Replies[1].Id = rq.Id
            /\ Replies[1].Question = rq.Question
            /\ Replies[1].Response

\* C19 (as stated): a SERVFAIL reply has empty answer and authority sections
\* and nothing but an echoed OPT in additional.
C19_ServFailIsEmpty ==
    Handled
    => \A i \in DOMAIN Replies :
          Replies[i].Rcode = RcodeServerFailure
          => /\ Replies[i].Answer = <<>>
             /\ Replies[i].Ns = <<>>
             /\ RecordsOf(Replies[i]) = {}

\* C20 (as stated): a query received by a listener of a server is handled
\* with that server's configuration.
C20_OwnConfiguration ==
    via # 0
    => /\ server = NewServer(ConfigOf(via))
       /\ \A i \in DOMAIN Replies :
             \A rr \in Range(Replies[i].Extra) :
                rr.Rrtype = TypeOPT => rr.Data.UDPSize = NewServer(ConfigOf(via)).BufferSize

====
